---------------------------- MODULE Spec2Model ----------------------------
(***************************************************************************)
(* Model of packages/next/src/lib/metadata/resolve-metadata.ts:            *)
(* accumulateMetadata (the fold over the metadata items with its           *)
(* eager-launch / staged-resolve protocol for generateMetadata functions), *)
(* merge and mergeStaticMetadata.                                          *)
(*                                                                         *)
(* JavaScript values are modelled as records so that any two values can be *)
(* compared: a string is [str |-> <<tokens>>] (a string is a sequence of   *)
(* tokens, "%s" being the title placeholder), an array is [arr |-> <<..>>],*)
(* null is Null, undefined is Undefined, an object is a record holding the *)
(* keys that are present on it.                                            *)
(***************************************************************************)
EXTENDS Integers, Sequences, FiniteSets, TLC

\* Longest list of metadata items handed to accumulateMetadata.
MaxItems == 3

---------------------------------------------------------------------------
(* JavaScript values *)

Null == [null |-> TRUE]

Undefined == [undefined |-> TRUE]

Str(toks) == [str |-> toks]

Arr(elems) == [arr |-> elems]

EmptyObject == [k \in {} |-> Null]

IsString(v) == DOMAIN v = {"str"}

IsArray(v) == DOMAIN v = {"arr"}

\* !v for the values that occur: null, undefined and the empty string.
Falsy(v) == v = Null \/ v = Undefined \/ v = Str(<<>>)

\* v || null
OrNull(v) == IF Falsy(v) THEN Null ELSE v

\* obj[key] of a JavaScript object: undefined when the key is absent.
Get(obj, key) == IF key \in DOMAIN obj THEN obj[key] ELSE Undefined

\* { ...obj, [key]: value }
Spread(obj, key, value) ==
  [k \in (DOMAIN obj) \cup {key} |-> IF k = key THEN value ELSE obj[k]]

\* Faulty variant of ObjectAssign: the first object is dropped.
ObjectAssignSecondOnly(a, b) == b

\* Object.assign({}, a, b): the keys of both, b's value where both have one.
ObjectAssign(a, b) ==
  [k \in (DOMAIN a) \cup (DOMAIN b) |-> IF k \in DOMAIN b THEN b[k] ELSE a[k]]

---------------------------------------------------------------------------
(* The resolvers merge calls *)

\* template.replace(/%s/g, title) on token sequences.
RECURSIVE ReplacePlaceholder(_, _)
ReplacePlaceholder(template, title) ==
  IF template = <<>> THEN <<>>
  ELSE (IF Head(template) = "%s" THEN title ELSE <<Head(template)>>)
         \o ReplacePlaceholder(Tail(template), title)

resolveTitleTemplate(template, title) ==
  IF Falsy(template) THEN title
  ELSE Str(ReplacePlaceholder(template.str, title.str))

\* resolveTitle(title, stashedTemplate): a string title is substituted into
\* the stashed template; the object form takes `absolute` verbatim if it is
\* set, else substitutes the stashed template into `default`; the result
\* carries the object's own template for the levels below.
resolveTitle(title, stashedTemplate) ==
  LET isObject == ~IsString(title) /\ ~Falsy(title)
      template == IF isObject /\ "template" \in DOMAIN title
                  THEN title.template ELSE Null
      resolved ==
        IF IsString(title) THEN resolveTitleTemplate(stashedTemplate, title)
        ELSE IF ~isObject THEN Undefined
        ELSE IF ~Falsy(Get(title, "absolute")) THEN title.absolute
        ELSE IF "default" \in DOMAIN title
             THEN resolveTitleTemplate(stashedTemplate, title.default)
        ELSE Undefined
  IN  [absolute |-> IF Falsy(resolved) THEN Str(<<>>) ELSE resolved,
       template |-> template]

\* A URL string is absolute when its first token is an origin.
Origins == {"https://a.example", "https://b.example"}

IsAbsoluteUrl(url) == url.str # <<>> /\ Head(url.str) \in Origins

\* A relative URL is resolved against the base; without a base it is kept.
resolveUrl(url, metadataBase) ==
  IF Falsy(url) \/ Falsy(metadataBase) \/ IsAbsoluteUrl(url) THEN url
  ELSE Str(metadataBase.str \o url.str)

\* resolveAsArrayOrUndefined
resolveAsArrayOrUndefined(value) ==
  IF Falsy(value) THEN Undefined
  ELSE IF IsArray(value) THEN value
  ELSE Arr(<<value>>)

\* One image: a URL string becomes a descriptor; the URL is resolved.
resolveImage(image, metadataBase) ==
  IF IsString(image) THEN [url |-> resolveUrl(image, metadataBase)]
  ELSE [k \in DOMAIN image |->
          IF k = "url" THEN resolveUrl(image.url, metadataBase) ELSE image[k]]

RECURSIVE resolveImageList(_, _)
resolveImageList(images, metadataBase) ==
  IF images = <<>> THEN <<>>
  ELSE <<resolveImage(Head(images), metadataBase)>>
         \o resolveImageList(Tail(images), metadataBase)

\* The images of an Open Graph / Twitter declaration as a uniform array.
resolveImages(images, metadataBase) ==
  LET array == resolveAsArrayOrUndefined(images)
  IN  IF array = Undefined THEN Undefined
      ELSE Arr(resolveImageList(array.arr, metadataBase))

resolveOpenGraph(openGraph, metadataBase) ==
  IF Falsy(openGraph) THEN Null
  ELSE Spread(openGraph, "images",
              resolveImages(Get(openGraph, "images"), metadataBase))

resolveTwitter(twitter, metadataBase) ==
  IF Falsy(twitter) THEN Null
  ELSE LET withCard == Spread(twitter, "card",
                         IF "card" \in DOMAIN twitter THEN twitter.card
                         ELSE Str(<<"summary">>))
       IN  Spread(withCard, "images",
                  resolveImages(Get(twitter, "images"), metadataBase))

resolveIcon(icon) == IF IsString(icon) THEN [url |-> icon] ELSE icon

RECURSIVE resolveIconSeq(_)
resolveIconSeq(icons) ==
  IF icons = <<>> THEN <<>>
  ELSE <<resolveIcon(Head(icons))>> \o resolveIconSeq(Tail(icons))

resolveIconList(value) ==
  LET array == resolveAsArrayOrUndefined(value)
  IN  IF array = Undefined THEN Arr(<<>>) ELSE Arr(resolveIconSeq(array.arr))

resolveIcons(icons) ==
  IF Falsy(icons) THEN Null
  ELSE IF IsArray(icons) \/ IsString(icons)
       THEN [icon |-> resolveIconList(icons), apple |-> Arr(<<>>)]
  ELSE [icon |-> resolveIconList(Get(icons, "icon")),
        apple |-> resolveIconList(Get(icons, "apple"))]

\* resolveAlternates(alternates, metadataBase): the canonical URL is
\* resolved against the base.
resolveAlternates(alternates, metadataBase) ==
  IF Falsy(alternates) THEN Null
  ELSE Spread(alternates, "canonical",
              resolveUrl(OrNull(Get(alternates, "canonical")), metadataBase))

---------------------------------------------------------------------------
(* The resolved metadata record *)

\* The fields merge assigns with `source[key] || null`.
ScalarKeys ==
  {"applicationName", "description", "generator", "creator", "publisher",
   "category", "classification", "referrer", "colorScheme", "itunes",
   "formatDetection", "manifest"}

\* The fields of ResolvedMetadata the model carries.
MetadataKeys ==
  ScalarKeys \cup {"title", "alternates", "openGraph", "twitter", "icons", "other",
                   "metadataBase"}

createDefaultMetadata ==
  [k \in MetadataKeys |-> IF k = "other" THEN EmptyObject ELSE Null]

NoTitleTemplates == [title |-> Null, twitter |-> Null, openGraph |-> Null]

\* x?.template || null for a resolved title x.
TemplateOf(title) ==
  IF Falsy(title) THEN Null ELSE OrNull(Get(title, "template"))

\* x?.title?.template || null for a resolved openGraph / twitter x.
NestedTemplateOf(family) ==
  IF Falsy(family) THEN Null ELSE TemplateOf(Get(family, "title"))

---------------------------------------------------------------------------
(* mergeStaticMetadata and merge *)

\* { ...value }: spreading null or undefined gives no keys.
SpreadOf(value) == IF Falsy(value) THEN EmptyObject ELSE value

\* The icons the static files give: { icon: icon || [], apple: apple || [] }.
StaticIcons(staticFilesMetadata) ==
  [icon  |-> IF Falsy(staticFilesMetadata.icon) THEN Arr(<<>>)
             ELSE staticFilesMetadata.icon,
   apple |-> IF Falsy(staticFilesMetadata.apple) THEN Arr(<<>>)
             ELSE staticFilesMetadata.apple]

\* Faulty variant of StaticImagesInput: the static images follow the merged ones.
StaticImagesInputAppended(merged, staticImages) ==
  LET previous == Get(SpreadOf(merged), "images")
  IN  Spread(SpreadOf(merged), "images",
             IF IsArray(previous) THEN Arr(previous.arr \o staticImages.arr)
             ELSE staticImages)

\* Faulty variant of StaticImagesInput: the merged family is not spread,
\* only the static images are handed on.
StaticImagesInputImagesOnly(merged, staticImages) ==
  [images |-> staticImages]

\* The object handed to resolveTwitter / resolveOpenGraph for the static
\* images: { ...metadata[family], images: staticImages }.
StaticImagesInput(merged, staticImages) ==
  Spread(SpreadOf(merged), "images", staticImages)

\* Faulty variant of mergeStaticMetadata: icons already merged are kept.
mergeStaticMetadataKeepingIcons(metadata, staticFilesMetadata) ==
  IF Falsy(staticFilesMetadata) THEN metadata
  ELSE
    [k \in DOMAIN metadata |->
       CASE k = "icons" ->
              IF (~Falsy(staticFilesMetadata.icon) \/ ~Falsy(staticFilesMetadata.apple))
                 /\ Falsy(metadata.icons)
              THEN StaticIcons(staticFilesMetadata)
              ELSE metadata.icons
         [] k = "twitter" ->
              IF ~Falsy(staticFilesMetadata.twitter)
              THEN resolveTwitter(
                     StaticImagesInput(metadata.twitter, staticFilesMetadata.twitter),
                     metadata.metadataBase)
              ELSE metadata.twitter
         [] k = "openGraph" ->
              IF ~Falsy(staticFilesMetadata.openGraph)
              THEN resolveOpenGraph(
                     StaticImagesInput(metadata.openGraph, staticFilesMetadata.openGraph),
                     metadata.metadataBase)
              ELSE metadata.openGraph
         [] OTHER -> metadata[k]]

\* Faulty variant of mergeStaticMetadata: icons are written whatever the families hold.
mergeStaticMetadataAlwaysIcons(metadata, staticFilesMetadata) ==
  IF Falsy(staticFilesMetadata) THEN metadata
  ELSE
    [k \in DOMAIN metadata |->
       CASE k = "icons" -> StaticIcons(staticFilesMetadata)
         [] k = "twitter" ->
              IF ~Falsy(staticFilesMetadata.twitter)
              THEN resolveTwitter(
                     StaticImagesInput(metadata.twitter, staticFilesMetadata.twitter),
                     metadata.metadataBase)
              ELSE metadata.twitter
         [] k = "openGraph" ->
              IF ~Falsy(staticFilesMetadata.openGraph)
              THEN resolveOpenGraph(
                     StaticImagesInput(metadata.openGraph, staticFilesMetadata.openGraph),
                     metadata.metadataBase)
              ELSE metadata.openGraph
         [] OTHER -> metadata[k]]

mergeStaticMetadata(metadata, staticFilesMetadata) ==
  IF Falsy(staticFilesMetadata) THEN metadata
  ELSE
    [k \in DOMAIN metadata |->
       CASE k = "icons" ->
              IF ~Falsy(staticFilesMetadata.icon) \/ ~Falsy(staticFilesMetadata.apple)
              THEN StaticIcons(staticFilesMetadata)
              ELSE metadata.icons
         [] k = "twitter" ->
              IF ~Falsy(staticFilesMetadata.twitter)
              THEN resolveTwitter(
                     StaticImagesInput(metadata.twitter, staticFilesMetadata.twitter),
                     metadata.metadataBase)
              ELSE metadata.twitter
         [] k = "openGraph" ->
              IF ~Falsy(staticFilesMetadata.openGraph)
              THEN resolveOpenGraph(
                     StaticImagesInput(metadata.openGraph, staticFilesMetadata.openGraph),
                     metadata.metadataBase)
              ELSE metadata.openGraph
         [] OTHER -> metadata[k]]

\* Faulty variant of MergeBase: the base the source declares is not looked at.
MergeBaseOfTarget(target, source) == target.metadataBase

\* source?.metadataBase || target.metadataBase
MergeBase(target, source) ==
  IF ~Falsy(source) /\ ~Falsy(Get(source, "metadataBase"))
  THEN source.metadataBase ELSE target.metadataBase

\* target.openGraph / target.twitter after its case of the switch: the
\* normalized family with its title resolved against the family's template.
WithResolvedTitle(family, template) ==
  IF Falsy(family) THEN family
  ELSE Spread(family, "title", resolveTitle(Get(family, "title"), template))

\* The value the switch assigns to target[key] for a key present on source.
MergeField(target, source, key, titleTemplates, metadataBase) ==
  CASE key = "title" -> resolveTitle(source.title, titleTemplates.title)
    [] key = "alternates" -> resolveAlternates(source.alternates, metadataBase)
    [] key = "openGraph" ->
         WithResolvedTitle(resolveOpenGraph(source.openGraph, metadataBase),
                           titleTemplates.openGraph)
    [] key = "twitter" ->
         WithResolvedTitle(resolveTwitter(source.twitter, metadataBase),
                           titleTemplates.twitter)
    [] key = "icons" -> resolveIcons(source.icons)
    [] key \in ScalarKeys -> OrNull(source[key])
    [] key = "other" -> ObjectAssign(target.other, SpreadOf(source.other))
    [] key = "metadataBase" -> metadataBase
    [] OTHER -> target[key]

\* The keys the `for (const key_ in source)` loop visits.
SourceKeys(source) == IF Falsy(source) THEN {} ELSE DOMAIN source

\* Faulty variant of MergeDeclared: a key the source does not have is set
\* back to its default.
MergeDeclaredOverDefault(target, source, titleTemplates) ==
  [k \in DOMAIN target |->
     IF k \in SourceKeys(source)
     THEN MergeField(target, source, k, titleTemplates, MergeBase(target, source))
     ELSE createDefaultMetadata[k]]

\* The target after the for loop of merge. Each case of the switch writes
\* target[key] alone, so the order in which the keys are visited does not
\* matter.
MergeDeclared(target, source, titleTemplates) ==
  [k \in DOMAIN target |->
     IF k \in SourceKeys(source)
     THEN MergeField(target, source, k, titleTemplates, MergeBase(target, source))
     ELSE target[k]]

\* Faulty variant of merge: a scalar field the source does not declare is reset.
mergeResettingScalars(target, source, staticFilesMetadata, titleTemplates) ==
  LET declared == MergeDeclared(target, source, titleTemplates)
  IN  mergeStaticMetadata(
        [k \in DOMAIN declared |->
           IF k \in ScalarKeys \ SourceKeys(source) THEN Null ELSE declared[k]],
        staticFilesMetadata)

\* merge(target, source, staticFilesMetadata, titleTemplates): the target
\* after the call.
merge(target, source, staticFilesMetadata, titleTemplates) ==
  mergeStaticMetadata(MergeDeclared(target, source, titleTemplates),
                      staticFilesMetadata)

---------------------------------------------------------------------------
(* Metadata items and generateMetadata functions *)

\* A metadata item is [kind, decl, static]. kind says what metadataExport is:
\*   "none"        null
\*   "object"      the object decl
\*   "sync"        a function that returns decl without a promise
\*   "syncThrow"   a function that throws when it is called
\*   "async"       a function returning a promise; it never awaits its parent
\*   "asyncParent" an async function that awaits its parent and returns decl
\*                 extended with what it read from the parent
\* static is the item's StaticMetadata: Null, or a record of the four families,
\* each Undefined or a non-empty array of descriptors.
Item(kind, decl, static) == [kind |-> kind, decl |-> decl, static |-> static]

IsFunction(item) == item.kind \in {"sync", "syncThrow", "async", "asyncParent"}

ReturnsPromise(item) == item.kind \in {"async", "asyncParent"}

StringTokens(v) == IF IsString(v) THEN v.str ELSE <<>>

\* What an "asyncParent" generator reads from its parent: the description
\* and the title of the levels above.
ParentDigest(parent) ==
  Str(StringTokens(parent.description)
        \o StringTokens(Get(SpreadOf(parent.title), "absolute")))

\* The Metadata a generator returns, given the parent value it observed.
GeneratedMetadata(item, parent) ==
  IF item.kind = "asyncParent"
  THEN Spread(item.decl, "creator", ParentDigest(parent))
  ELSE item.decl

---------------------------------------------------------------------------
(* accumulateMetadata *)

VARIABLES
  metadataItems,            \* the argument: a sequence of items
  development,              \* process.env.NODE_ENV === 'development'
  resolvedMetadata,         \* the accumulator
  titleTemplates,
  resolvers,                \* one entry per parent promise
  generateMetadataResults,  \* one entry per invoked generator
  resolvingIndex,
  generatedMetadata,        \* the slot of the result the walk awaits (0: none)
  i,                        \* the loop index, 0 .. metadataItems.length
  pc,                       \* "loop", "await", "returned" or "rejected"
  generators,               \* the invoked generators' coroutines
  merges,                   \* history: one record per call of merge
  settleOrder,              \* history: the slots of the promises settled, in order
  failure                   \* the item index whose error rejected the call

\* The state of the collection of the items, segment by segment.
VARIABLES
  loaderTrees,              \* the segments of the route, root first
  array,                    \* the MetadataItems array the calls share
  segment,                  \* the number of collectMetadata calls that returned
  collectPc,                \* "call", "static", "done" or "rejected"
  producers,                \* the producers of the call in flight, by family
  families,                 \* the four collectStaticImagesFiles promises
  settled,                  \* history: the producers settled, in order
  collectError              \* the producer whose error rejected the call

accumulateVars ==
  <<metadataItems, development, resolvedMetadata, titleTemplates, resolvers,
    generateMetadataResults, resolvingIndex, generatedMetadata, i, pc,
    generators, merges, settleOrder, failure>>

collectVars ==
  <<loaderTrees, array, segment, collectPc, producers, families, settled,
    collectError>>

vars ==
  <<metadataItems, development, resolvedMetadata, titleTemplates, resolvers,
    generateMetadataResults, resolvingIndex, generatedMetadata, i, pc,
    generators, merges, settleOrder, failure,
    loaderTrees, array, segment, collectPc, producers, families, settled,
    collectError>>

length == Len(metadataItems)

\* metadataItems[j] for a 0-based index j.
ItemAt(j) == metadataItems[j + 1]

\* Faulty variant of currentResolvedMetadata: the accumulator itself is
\* handed on in development too.
currentResolvedMetadataUncloned(dev, metadata) == [live |-> TRUE]

\* The value a parent promise is resolved with: a frozen structured clone in
\* development, the accumulator object itself otherwise.
currentResolvedMetadata(dev, metadata) ==
  IF dev THEN [frozen |-> metadata] ELSE [live |-> TRUE]

\* What a holder of the resolved value reads through it.
Deref(value, live) == IF "frozen" \in DOMAIN value THEN value.frozen ELSE live

UnresolvedPromise == [resolved |-> FALSE, value |-> Undefined]

\* Faulty variant of resolveParent: every pending parent promise is resolved at once.
resolveParentAll(rs, index, value) ==
  [k \in DOMAIN rs |->
     IF ~rs[k].resolved THEN [resolved |-> TRUE, value |-> value] ELSE rs[k]]

\* Faulty variant of resolveParent: the promise of the next generator is resolved.
resolveParentNext(rs, index, value) ==
  [k \in DOMAIN rs |->
     IF k = index + 2 /\ ~rs[k].resolved
     THEN [resolved |-> TRUE, value |-> value] ELSE rs[k]]

\* resolveParent(value) for resolvers[index]; a promise settles only once.
resolveParent(rs, index, value) ==
  [k \in DOMAIN rs |->
     IF k = index + 1 /\ ~rs[k].resolved
     THEN [resolved |-> TRUE, value |-> value] ELSE rs[k]]

\* The coroutine of a generator that has just been called for item j.
Invoked(j) ==
  [index  |-> j,
   st     |-> IF ReturnsPromise(ItemAt(j)) THEN "running" ELSE "returned",
   parent |-> Undefined,
   value  |-> IF ItemAt(j).kind = "sync" THEN ItemAt(j).decl ELSE Undefined]

\* The preload loop for j .. length-1: every function item gets a parent
\* promise and is called; a throwing call ends the loop (threw = its index).
RECURSIVE Preload(_, _)
Preload(j, acc) ==
  IF j >= length THEN acc
  ELSE IF ~IsFunction(ItemAt(j)) THEN Preload(j + 1, acc)
  ELSE LET pushed == [acc EXCEPT !.resolvers = Append(@, UnresolvedPromise)]
       IN  IF ItemAt(j).kind = "syncThrow"
           THEN [pushed EXCEPT !.threw = j]
           ELSE Preload(j + 1,
                  [pushed EXCEPT
                     !.results = Append(@, [promise |-> ReturnsPromise(ItemAt(j)),
                                            value |-> Invoked(j).value]),
                     !.generators = Append(@, Invoked(j))])

NoPreload ==
  [resolvers |-> resolvers, results |-> generateMetadataResults,
   generators |-> generators, threw |-> -1]

\* Faulty variant of PreloadFrom: the generators are invoked again at every
\* function item the walk reaches.
PreloadFromEach(j) == Preload(j, NoPreload)

\* The items whose generators the walk invokes on reaching item j.
PreloadFrom(j) == IF resolvers = <<>> THEN Preload(j, NoPreload) ELSE NoPreload

\* Faulty variant of NextResolvingIndex: the increment is forgotten.
NextResolvingIndexStuck(index) == index

\* resolvingIndex++
NextResolvingIndex(index) == index + 1

\* The title templates read from the accumulator.
TemplatesOf(metadata) ==
  [title     |-> TemplateOf(metadata.title),
   openGraph |-> NestedTemplateOf(metadata.openGraph),
   twitter   |-> NestedTemplateOf(metadata.twitter)]

\* Faulty variant of NextTitleTemplates: the templates are never recomputed.
NextTitleTemplatesStale(j, n, metadata, templates) == templates

\* Faulty variant of NextTitleTemplates: only the last item is skipped.
NextTitleTemplatesOffByOne(j, n, metadata, templates) ==
  IF j < n - 1 THEN TemplatesOf(metadata) ELSE templates

\* The title templates after item j has been merged into metadata.
NextTitleTemplates(j, n, metadata, templates) ==
  IF j < n - 2 THEN TemplatesOf(metadata) ELSE templates

\* Lines 338-348 for item i with the given metadata.
MergeItem(metadata) ==
  LET after == merge(resolvedMetadata, metadata, ItemAt(i).static, titleTemplates)
  IN  /\ resolvedMetadata' = after
      /\ titleTemplates' = NextTitleTemplates(i, length, after, titleTemplates)
      /\ merges' = Append(merges, [source |-> metadata,
                                   templates |-> titleTemplates,
                                   before |-> resolvedMetadata,
                                   after |-> after])
      /\ i' = i + 1

\* An iteration for an item that is null or an object. The code runs
\* consecutive iterations of this kind without yielding; taking them one at
\* a time only lets generator steps that do not touch the accumulator fall
\* between them.
StepStatic ==
  /\ UNCHANGED collectVars
  /\ pc = "loop" /\ i < length /\ ~IsFunction(ItemAt(i))
  /\ MergeItem(IF ItemAt(i).kind = "object" THEN ItemAt(i).decl ELSE Null)
  /\ UNCHANGED <<metadataItems, development, resolvers, generateMetadataResults,
                 resolvingIndex, generatedMetadata, pc, generators, settleOrder,
                 failure>>

\* An iteration for a function item, up to the await of its result (or to
\* the end of the iteration when the result is not a promise).
StepDynamic ==
  /\ UNCHANGED collectVars
  /\ pc = "loop" /\ i < length /\ IsFunction(ItemAt(i))
  /\ LET loaded == PreloadFrom(i)
         result == loaded.results[resolvingIndex + 1]
     IN  \/ /\ loaded.threw >= 0
            /\ resolvers' = loaded.resolvers
            /\ generateMetadataResults' = loaded.results
            /\ generators' = loaded.generators
            /\ pc' = "rejected"
            /\ failure' = loaded.threw
            /\ UNCHANGED <<resolvedMetadata, titleTemplates, resolvingIndex,
                           generatedMetadata, i, merges>>
         \/ /\ loaded.threw < 0
            /\ resolvers' = resolveParent(loaded.resolvers, resolvingIndex,
                               currentResolvedMetadata(development, resolvedMetadata))
            /\ generateMetadataResults' = loaded.results
            /\ generators' = loaded.generators
            /\ resolvingIndex' = NextResolvingIndex(resolvingIndex)
            /\ \/ /\ result.promise
                  /\ pc' = "await"
                  /\ generatedMetadata' = resolvingIndex + 1
                  /\ UNCHANGED <<resolvedMetadata, titleTemplates, i, merges>>
               \/ /\ ~result.promise
                  /\ MergeItem(result.value)
                  /\ pc' = pc
                  /\ UNCHANGED generatedMetadata
            /\ UNCHANGED failure
  /\ UNCHANGED <<metadataItems, development, settleOrder>>

\* The generator whose result the walk awaits.
Awaited == generators[generatedMetadata]

\* Faulty variant of AwaitFulfilled: the result is merged without being awaited.
AwaitFulfilledUnawaited ==
  /\ UNCHANGED collectVars
  /\ pc = "await"
  /\ MergeItem(IF Awaited.st = "fulfilled" THEN Awaited.value ELSE Null)
  /\ pc' = "loop"
  /\ generatedMetadata' = 0
  /\ UNCHANGED <<metadataItems, development, resolvers, generateMetadataResults,
                 resolvingIndex, generators, settleOrder, failure>>

\* `await generatedMetadata` returns: merge and go on.
AwaitFulfilled ==
  /\ UNCHANGED collectVars
  /\ pc = "await" /\ Awaited.st = "fulfilled"
  /\ MergeItem(Awaited.value)
  /\ pc' = "loop"
  /\ generatedMetadata' = 0
  /\ UNCHANGED <<metadataItems, development, resolvers, generateMetadataResults,
                 resolvingIndex, generators, settleOrder, failure>>

\* Faulty variant of AwaitRejected: the error is caught and the item merged as null.
AwaitRejectedCaught ==
  /\ UNCHANGED collectVars
  /\ pc = "await" /\ Awaited.st = "rejected"
  /\ MergeItem(Null)
  /\ pc' = "loop"
  /\ generatedMetadata' = 0
  /\ UNCHANGED <<metadataItems, development, resolvers, generateMetadataResults,
                 resolvingIndex, generators, settleOrder, failure>>

\* Faulty variant of AwaitRejected: the failed item is skipped and the walk goes on.
AwaitRejectedSkipped ==
  /\ UNCHANGED collectVars
  /\ pc = "await" /\ Awaited.st = "rejected"
  /\ pc' = "loop"
  /\ i' = i + 1
  /\ generatedMetadata' = 0
  /\ merges' = Append(merges, [source |-> Null, templates |-> titleTemplates,
                               before |-> resolvedMetadata,
                               after |-> resolvedMetadata])
  /\ UNCHANGED <<metadataItems, development, resolvedMetadata, titleTemplates,
                 resolvers, generateMetadataResults, resolvingIndex,
                 generators, settleOrder, failure>>

\* `await generatedMetadata` throws: accumulateMetadata rejects.
AwaitRejected ==
  /\ UNCHANGED collectVars
  /\ pc = "await" /\ Awaited.st = "rejected"
  /\ pc' = "rejected"
  /\ failure' = Awaited.index
  /\ UNCHANGED <<metadataItems, development, resolvedMetadata, titleTemplates,
                 resolvers, generateMetadataResults, resolvingIndex,
                 generatedMetadata, i, generators, merges, settleOrder>>

\* return resolvedMetadata
Return ==
  /\ UNCHANGED collectVars
  /\ pc = "loop" /\ i = length
  /\ pc' = "returned"
  /\ UNCHANGED <<metadataItems, development, resolvedMetadata, titleTemplates,
                 resolvers, generateMetadataResults, resolvingIndex,
                 generatedMetadata, i, generators, merges, settleOrder, failure>>

GeneratorStep(k, next) ==
  /\ UNCHANGED collectVars
  /\ generators' = [generators EXCEPT ![k] = next]
  /\ settleOrder' = IF next.st \in {"fulfilled", "rejected"}
                    THEN Append(settleOrder, k) ELSE settleOrder
  /\ UNCHANGED <<metadataItems, development, resolvedMetadata, titleTemplates,
                 resolvers, generateMetadataResults, resolvingIndex,
                 generatedMetadata, i, pc, merges, failure>>

\* The generator reaches `await parent`.
GenAwaitParent(k) ==
  /\ generators[k].st = "running"
  /\ ItemAt(generators[k].index).kind = "asyncParent"
  /\ GeneratorStep(k, [generators[k] EXCEPT !.st = "waiting"])

\* The generator resumes from `await parent` with the value of its promise.
GenObserve(k) ==
  /\ generators[k].st = "waiting"
  /\ resolvers[k].resolved
  /\ GeneratorStep(k, [generators[k] EXCEPT
                         !.st = "resumed",
                         !.parent = Deref(resolvers[k].value, resolvedMetadata)])

\* A generator can settle once it has done what its kind does.
CanSettle(k) ==
  \/ generators[k].st = "resumed"
  \/ generators[k].st = "running" /\ ItemAt(generators[k].index).kind = "async"

GenFulfil(k) ==
  /\ CanSettle(k)
  /\ GeneratorStep(k, [generators[k] EXCEPT
                         !.st = "fulfilled",
                         !.value = GeneratedMetadata(ItemAt(generators[k].index),
                                                     generators[k].parent)])

\* A generator can fail at any point before it settles.
GenReject(k) ==
  /\ generators[k].st \in {"running", "resumed"}
  /\ GeneratorStep(k, [generators[k] EXCEPT !.st = "rejected"])

Next ==
  \/ StepStatic
  \/ StepDynamic
  \/ AwaitFulfilled
  \/ AwaitRejected
  \/ Return
  \/ \E k \in DOMAIN generators : GenAwaitParent(k)
  \/ \E k \in DOMAIN generators : GenObserve(k)
  \/ \E k \in DOMAIN generators : GenFulfil(k)
  \/ \E k \in DOMAIN generators : GenReject(k)

\* No segment is being collected.
NoCollection ==
  /\ loaderTrees = <<>>
  /\ array = <<>>
  /\ segment = 0
  /\ collectPc = "done"
  /\ producers = <<>>
  /\ families = <<>>
  /\ settled = <<>>
  /\ collectError = <<>>

\* accumulateMetadata before its loop.
OnEntry ==
  /\ resolvedMetadata = createDefaultMetadata
  /\ titleTemplates = NoTitleTemplates
  /\ resolvers = <<>>
  /\ generateMetadataResults = <<>>
  /\ resolvingIndex = 0
  /\ generatedMetadata = 0
  /\ i = 0
  /\ pc = "loop"
  /\ generators = <<>>
  /\ merges = <<>>
  /\ settleOrder = <<>>
  /\ failure = -1

\* The state on entry, for an item list drawn from the given catalog.
InitWith(catalog) ==
  /\ metadataItems \in UNION {[1..n -> catalog] : n \in 0..MaxItems}
  /\ development \in BOOLEAN
  /\ OnEntry
  /\ NoCollection

---------------------------------------------------------------------------
(* Item lists *)

SiteTitle == [template |-> Str(<<"%s", " | Site">>), default |-> Str(<<"Site">>)]

PageTitle == Str(<<"Page">>)

\* Items for the generator protocol: every kind of metadataExport, with
\* declarations that tell the levels apart.
ProtocolItems ==
  { Item("none", Null, Null),
    Item("object", [title |-> SiteTitle, description |-> Str(<<"root desc">>)], Null),
    Item("sync", [description |-> Str(<<"sync desc">>)], Null),
    Item("syncThrow", Null, Null),
    Item("async", [title |-> PageTitle], Null),
    Item("asyncParent", [other |-> [seen |-> Str(<<"yes">>)]], Null) }

Init == InitWith(ProtocolItems)

Spec == Init /\ [][Next]_vars

BlogTitle == [template |-> Str(<<"%s", " | Blog">>), default |-> Str(<<"Blog">>)]

CardTitle == [template |-> Str(<<"%s", " | Card">>), default |-> Str(<<"Card">>)]

\* Items for title inheritance: layouts with title templates, pages with
\* plain titles, as objects and as generateMetadata functions.
TitleItems ==
  { Item("none", Null, Null),
    Item("object", [title |-> SiteTitle], Null),
    Item("object", [title |-> PageTitle], Null),
    Item("object", [title |-> BlogTitle,
                    openGraph |-> [title |-> CardTitle],
                    twitter |-> [title |-> CardTitle]], Null),
    Item("sync", [twitter |-> [title |-> Str(<<"Tweet">>)]], Null),
    Item("syncThrow", Null, Null),
    Item("async", [title |-> PageTitle], Null),
    Item("asyncParent", [openGraph |-> [title |-> Str(<<"Shared">>)]], Null) }

InitTitle == InitWith(TitleItems)

\* The StaticMetadata of a segment that has a metadata entry but no files.
NoStaticFiles ==
  [icon |-> Undefined, apple |-> Undefined, openGraph |-> Undefined,
   twitter |-> Undefined]

RootDescription == Str(<<"root desc">>)

\* Items for the scalar fields and `other`: a root that sets them, children
\* that leave them out, set them anew or set them to a falsy value.
FieldItems ==
  { Item("none", Null, Null),
    Item("none", Null, NoStaticFiles),
    Item("object", [title |-> SiteTitle,
                    description |-> RootDescription,
                    manifest |-> Str(<<"/manifest.json">>),
                    other |-> [a |-> Str(<<"root">>), b |-> Str(<<"root">>)]], Null),
    Item("object", [title |-> PageTitle], NoStaticFiles),
    Item("object", [description |-> Str(<<>>),
                    manifest |-> Undefined,
                    other |-> [a |-> Str(<<"child">>)]], Null),
    Item("sync", [other |-> [c |-> Str(<<"sync">>)]], Null),
    Item("syncThrow", Null, Null),
    Item("async", [description |-> Str(<<"page desc">>)], Null),
    Item("asyncParent", [other |-> [b |-> Str(<<"generated">>)]], Null) }

InitFields == InitWith(FieldItems)

\* Descriptors of static files, as the image loader produces them.
IconFile1 == [url |-> Str(<<"/icon1.png">>), sizes |-> Str(<<"512x512">>)]

IconFile2 == [url |-> Str(<<"/icon2.png">>), sizes |-> Str(<<"32x32">>)]

AppleFile == [url |-> Str(<<"/apple-icon.png">>)]

OpenGraphFile == [url |-> Str(<<"/opengraph-image">>), alt |-> Str(<<"Open Graph">>)]

TwitterFile == [url |-> Str(<<"/twitter-image">>), alt |-> Str(<<"Twitter">>)]

TwoIconFiles == [NoStaticFiles EXCEPT !.icon = Arr(<<IconFile1, IconFile2>>)]

AppleIconFile == [NoStaticFiles EXCEPT !.apple = Arr(<<AppleFile>>)]

ImageFiles ==
  [NoStaticFiles EXCEPT !.openGraph = Arr(<<OpenGraphFile>>),
                        !.twitter = Arr(<<TwitterFile>>)]

DeclaredIcon == Str(<<"x.png">>)

DeclaredCards ==
  [metadataBase |-> Str(<<"https://a.example">>),
   alternates |-> [canonical |-> Str(<<"/about">>)],
   manifest |-> Str(<<"/manifest.json">>),
   openGraph |-> [title |-> Str(<<"OG">>), images |-> Str(<<"/declared-og.png">>)],
   twitter |-> [title |-> Str(<<"Twitter - Next.js App">>),
                description |-> Str(<<"Twitter - This is a Next.js App">>),
                images |-> Arr(<<Str(<<"/declared-1.png">>),
                                 [url |-> Str(<<"https://b.example", "/declared-2.png">>)]>>)]]

\* Items for static files: segments with icon, apple, Open Graph and
\* Twitter files, below or beside declared icons and cards.
StaticItems ==
  { Item("none", Null, Null),
    Item("object", [icons |-> DeclaredIcon], TwoIconFiles),
    Item("object", [icons |-> [icon |-> DeclaredIcon, apple |-> Str(<<"a.png">>)]], Null),
    Item("none", Null, AppleIconFile),
    Item("object", DeclaredCards, Null),
    Item("none", Null, ImageFiles),
    Item("sync", [twitter |-> [images |-> Str(<<"/sync.png">>)]], ImageFiles),
    Item("syncThrow", Null, Null),
    Item("async", [icons |-> Arr(<<DeclaredIcon>>)], AppleIconFile),
    Item("asyncParent", [metadataBase |-> Str(<<"https://b.example">>),
                         openGraph |-> [images |-> Str(<<"/generated.png">>)]], Null) }

InitStatic == InitWith(StaticItems)

SpecStatic == InitStatic /\ [][Next]_vars

SpecFields == InitFields /\ [][Next]_vars

SpecTitle == InitTitle /\ [][Next]_vars

---------------------------------------------------------------------------
(* collectStaticImagesFiles, resolveStaticMetadata, collectMetadata *)

FamilyNames == {"icon", "apple", "openGraph", "twitter"}

\* A producer of a static file: the module its import gives, or a failure
\* of the import (the image loader rejected the file).
Producer(file, fails) == [module |-> [default |-> file], fails |-> fails]

\* interopDefault(mod): mod.default || mod
interopDefault(mod) ==
  IF "default" \in DOMAIN mod /\ ~Falsy(mod.default) THEN mod.default ELSE mod

\* A layout or page module: a client reference, or a module that may export
\* generateMetadata (a kind of function and what it returns) and metadata.
Module(client, generateMetadata, metadata) ==
  [client |-> client, generateMetadata |-> generateMetadata, metadata |-> metadata]

\* A segment: its module (Undefined when it has none) and the metadata entry
\* of its components (Null, or the producers by family).
LoaderTree(mod, metadata) == [module |-> mod, metadata |-> metadata]

NoExport == [kind |-> "none", decl |-> Null]

\* getDefinedMetadata(mod, props, route): null for a client reference, the
\* wrapped generateMetadata if the module exports one, else its metadata
\* object, else null.
getDefinedMetadata(mod) ==
  IF mod.client THEN NoExport
  ELSE IF ~Falsy(mod.generateMetadata)
       THEN [kind |-> mod.generateMetadata.kind, decl |-> mod.generateMetadata.decl]
  ELSE IF ~Falsy(mod.metadata) THEN [kind |-> "object", decl |-> mod.metadata]
  ELSE NoExport

\* mod ? await getDefinedMetadata(mod, props, route) : null
MetadataExportOf(tree) ==
  IF tree.module = Undefined THEN NoExport ELSE getDefinedMetadata(tree.module)

\* The segment of the call in flight.
CurrentTree == loaderTrees[segment + 1]

\* The producers of family on metadata, none when the key is absent.
ProducersOf(metadata, family) ==
  IF Falsy(metadata[family]) THEN <<>> ELSE metadata[family].arr

\* The map over the producers of a family: every producer is called.
StartedProducers(list) == [n \in DOMAIN list |-> [st |-> "started", calls |-> 1]]

\* The promise collectStaticImagesFiles returns, as the call leaves it at
\* its first await: undefined already when there is no producer.
StartedFamily(list) ==
  IF list = <<>> THEN [st |-> "fulfilled", value |-> Undefined]
  ELSE [st |-> "pending", value |-> Undefined]

\* Faulty variant of FamilyValue: the descriptors in the order the
\* producers settled.
RECURSIVE FamilyValueAsSettled(_, _, _)
FamilyValueAsSettled(list, family, order) ==
  IF order = <<>> THEN <<>>
  ELSE (IF Head(order)[1] = family
        THEN <<interopDefault(list[Head(order)[2]].module)>> ELSE <<>>)
         \o FamilyValueAsSettled(list, family, Tail(order))

\* What Promise.all gives for a family: one descriptor per producer, in the
\* order of the producers whatever the order they settled in.
FamilyValue(list, family, order) ==
  [n \in DOMAIN list |-> interopDefault(list[n].module)]

\* Faulty variant of push: the entry is put in front.
unshift(items, entry) == <<entry>> \o items

\* array.push(entry)
push(items, entry) == Append(items, entry)

\* array.push([metadataExport, staticFilesMetadata]) and the return.
PushEntry(staticFilesMetadata) ==
  /\ array' = push(array, Item(MetadataExportOf(CurrentTree).kind,
                               MetadataExportOf(CurrentTree).decl,
                               staticFilesMetadata))
  /\ segment' = segment + 1
  /\ collectPc' = "call"

\* A call of collectMetadata up to its first await on a pending promise:
\* without a metadata entry nothing is pending and the entry is pushed;
\* with one, the four families are started, every producer of each.
CollectStart ==
  /\ collectPc = "call" /\ segment < Len(loaderTrees)
  /\ \/ /\ Falsy(CurrentTree.metadata)
        /\ PushEntry(Null)
        /\ UNCHANGED <<producers, families, settled>>
     \/ /\ ~Falsy(CurrentTree.metadata)
        /\ producers' = [f \in FamilyNames |->
                           StartedProducers(ProducersOf(CurrentTree.metadata, f))]
        /\ families' = [f \in FamilyNames |->
                          StartedFamily(ProducersOf(CurrentTree.metadata, f))]
        /\ settled' = <<>>
        /\ collectPc' = "static"
        /\ UNCHANGED <<array, segment>>
  /\ UNCHANGED <<loaderTrees, collectError>>
  /\ UNCHANGED accumulateVars

\* The producers of family f in the call in flight.
ProducerSlots(f) == IF producers = <<>> THEN {} ELSE DOMAIN producers[f]

\* A producer of the call in flight that has not settled.
IsStarted(f, n) == producers[f][n].st = "started"

\* A producer's promise fulfils; the family's Promise.all fulfils with the
\* last of them.
ProducerFulfil(f, n) ==
  /\ IsStarted(f, n)
  /\ ~ProducersOf(CurrentTree.metadata, f)[n].fails
  /\ producers' = [producers EXCEPT ![f][n].st = "fulfilled"]
  /\ settled' = Append(settled, <<f, n>>)
  /\ families' =
       IF families[f].st = "pending"
            /\ \A other \in DOMAIN producers[f] :
                 other # n => producers[f][other].st = "fulfilled"
       THEN [families EXCEPT ![f] =
               [st |-> "fulfilled",
                value |-> Arr(FamilyValue(ProducersOf(CurrentTree.metadata, f),
                                          f, settled'))]]
       ELSE families
  /\ UNCHANGED <<loaderTrees, array, segment, collectPc, collectError>>
  /\ UNCHANGED accumulateVars

\* A producer's promise rejects; the family's Promise.all rejects with the
\* first of them.
ProducerReject(f, n) ==
  /\ IsStarted(f, n)
  /\ ProducersOf(CurrentTree.metadata, f)[n].fails
  /\ producers' = [producers EXCEPT ![f][n].st = "rejected"]
  /\ settled' = Append(settled, <<f, n>>)
  /\ families' =
       IF families[f].st = "pending"
       THEN [families EXCEPT ![f] = [st |-> "rejected", value |-> <<f, n>>]]
       ELSE families
  /\ UNCHANGED <<loaderTrees, array, segment, collectPc, collectError>>
  /\ UNCHANGED accumulateVars

\* The four families have fulfilled: resolveStaticMetadata returns the
\* record of their values and collectMetadata pushes its entry.
StaticResolved ==
  /\ collectPc = "static"
  /\ \A f \in FamilyNames : families[f].st = "fulfilled"
  /\ PushEntry([f \in FamilyNames |-> families[f].value])
  /\ producers' = <<>>
  /\ families' = <<>>
  /\ UNCHANGED <<loaderTrees, settled, collectError>>
  /\ UNCHANGED accumulateVars

\* A family has rejected: resolveStaticMetadata and collectMetadata reject
\* with the error of the family that rejected first.
StaticRejected ==
  /\ collectPc = "static"
  /\ \E f \in FamilyNames :
       /\ families[f].st = "rejected"
       /\ \A g \in FamilyNames :
            families[g].st = "rejected"
              => \E a, b \in DOMAIN settled :
                   /\ a <= b
                   /\ settled[a] = families[f].value
                   /\ settled[b] = families[g].value
       /\ collectError' = families[f].value
  /\ collectPc' = "rejected"
  /\ UNCHANGED <<loaderTrees, array, segment, producers, families, settled>>
  /\ UNCHANGED accumulateVars

\* The walker has called collectMetadata for every segment.
CollectDone ==
  /\ collectPc = "call" /\ segment = Len(loaderTrees)
  /\ collectPc' = "done"
  /\ UNCHANGED <<loaderTrees, array, segment, producers, families, settled,
                 collectError>>
  /\ UNCHANGED accumulateVars

NextCollect ==
  \/ CollectStart
  \/ \E f \in FamilyNames : \E n \in ProducerSlots(f) : ProducerFulfil(f, n)
  \/ \E f \in FamilyNames : \E n \in ProducerSlots(f) : ProducerReject(f, n)
  \/ StaticResolved
  \/ StaticRejected
  \/ CollectDone

\* Segments: a root layout with a metadata object and no metadata entry; a
\* segment without module and with an empty metadata entry; a page with
\* generateMetadata and metadata, two icon files and an empty apple list; a
\* client component with an Open Graph and a Twitter file; a segment whose
\* second icon file and whose apple file the image loader rejects.
NoFamilies ==
  [icon |-> Undefined, apple |-> Undefined, openGraph |-> Undefined,
   twitter |-> Undefined]

SegmentCatalog ==
  { LoaderTree(Module(FALSE, Undefined, [title |-> SiteTitle]), Null),
    LoaderTree(Undefined, NoFamilies),
    LoaderTree(Module(FALSE, [kind |-> "async", decl |-> [title |-> PageTitle]],
                      [description |-> Str(<<"static">>)]),
               [NoFamilies EXCEPT
                  !.icon = Arr(<<Producer(IconFile1, FALSE), Producer(IconFile2, FALSE)>>),
                  !.apple = Arr(<<>>)]),
    LoaderTree(Module(TRUE, Undefined, Undefined),
               [NoFamilies EXCEPT
                  !.openGraph = Arr(<<Producer(OpenGraphFile, FALSE)>>),
                  !.twitter = Arr(<<[module |-> TwitterFile, fails |-> FALSE]>>)]),
    LoaderTree(Module(FALSE, Undefined, [description |-> Str(<<"broken">>)]),
               [NoFamilies EXCEPT
                  !.icon = Arr(<<Producer(IconFile1, FALSE), Producer(IconFile2, TRUE)>>),
                  !.apple = Arr(<<Producer(AppleFile, TRUE)>>)]) }

\* The walker is about to call collectMetadata for the root segment.
InitCollect ==
  /\ loaderTrees \in UNION {[1..n -> SegmentCatalog] : n \in 0..MaxItems}
  /\ array = <<>>
  /\ segment = 0
  /\ collectPc = "call"
  /\ producers = <<>>
  /\ families = <<>>
  /\ settled = <<>>
  /\ collectError = <<>>
  /\ metadataItems = <<>>
  /\ development = FALSE
  /\ OnEntry

SpecCollect == InitCollect /\ [][NextCollect]_vars

---------------------------------------------------------------------------
(* The sequential fold: item 0 is invoked, awaited and merged, then item 1 *)

\* The Metadata item contributes when its generator (if any) is handed parent.
SequentialSource(item, parent) ==
  CASE item.kind = "none" -> Null
    [] item.kind = "object" -> item.decl
    [] OTHER -> GeneratedMetadata(item, parent)

\* The accumulator and the title templates after items 0 .. m-1 of the list.
RECURSIVE SequentialFold(_, _)
SequentialFold(items, m) ==
  IF m = 0
  THEN [metadata |-> createDefaultMetadata, templates |-> NoTitleTemplates]
  ELSE LET prev  == SequentialFold(items, m - 1)
           item  == items[m]
           after == merge(prev.metadata, SequentialSource(item, prev.metadata),
                          item.static, prev.templates)
       IN  [metadata  |-> after,
            templates |-> NextTitleTemplates(m - 1, Len(items), after, prev.templates)]

---------------------------------------------------------------------------
(* C1 *)

\* The generator in slot k awaited its parent promise and got its value.
HasObserved(k) == generators[k].parent # Undefined

\* C1: a generator at list index j that awaits its parent promise receives
\* the merge of items 0 .. j-1 into the default metadata, whatever the other
\* generators are doing, and what it reads through that value stays so until
\* it settles: nothing of item j or of a later item is in it.
C1_ParentIsMergeOfEarlierItems ==
  \A k \in DOMAIN generators :
    LET earlier == SequentialFold(metadataItems, generators[k].index).metadata
    IN  /\ HasObserved(k) => generators[k].parent = earlier
        /\ generators[k].st = "resumed"
             => Deref(resolvers[k].value, resolvedMetadata) = earlier

\* A generator at index >= 1 holds a parent value with an ancestor's
\* contribution while a later generator is already running.
C1_Witness ==
  \E k, later \in DOMAIN generators :
    /\ generators[k].st = "resumed"
    /\ generators[k].index >= 1
    /\ generators[k].parent # createDefaultMetadata
    /\ later > k
    /\ generators[later].st \in {"running", "fulfilled"}

---------------------------------------------------------------------------
(* C2 *)

\* C2: whatever the order in which the generators complete, the metadata
\* accumulateMetadata returns is that of the sequential fold of the list.
C2_ResultIsSequentialFold ==
  pc = "returned"
    => resolvedMetadata = SequentialFold(metadataItems, length).metadata

\* accumulateMetadata has returned although a later generator settled
\* before an earlier one.
C2_Witness ==
  /\ pc = "returned"
  /\ \E a, b \in DOMAIN settleOrder :
       a < b /\ settleOrder[a] > settleOrder[b]

---------------------------------------------------------------------------
(* C3 *)

\* The generator of item j has thrown or rejected.
GeneratorFailed(j) ==
  \/ ItemAt(j).kind = "syncThrow" /\ failure = j
  \/ \E k \in DOMAIN generators :
       generators[k].index = j /\ generators[k].st = "rejected"

FailedItems == {j \in 0..(length - 1) : GeneratorFailed(j)}

\* C3: when a generator has failed accumulateMetadata does not return
\* metadata; when it rejects it is with the error of a failed generator,
\* which is that generator's error when only one has failed.
C3_GeneratorFailureRejects ==
  /\ pc = "returned" => FailedItems = {}
  /\ pc = "rejected" => failure \in FailedItems
  /\ pc = "rejected" /\ Cardinality(FailedItems) = 1 => FailedItems = {failure}

\* The generator at index 2 failed after items 0 and 1 were merged.
C3_Witness ==
  /\ pc = "rejected" /\ failure = 2
  /\ Len(merges) = 2
  /\ resolvedMetadata # createDefaultMetadata

---------------------------------------------------------------------------
(* C4 *)

\* An item merged before the t-th merge set the scalar field key.
AncestorSet(t, key) ==
  \E a \in 1..(t - 1) :
    key \in SourceKeys(merges[a].source) /\ ~Falsy(merges[a].source[key])

\* C4 as stated: a scalar field an ancestor set is null after the merge of
\* a later item whose declaration does not declare it.
C4_Original ==
  \A t \in DOMAIN merges : \A key \in ScalarKeys :
    AncestorSet(t, key) /\ key \notin SourceKeys(merges[t].source)
      => merges[t].after[key] = Null

\* C4 as amended: a scalar field an ancestor set keeps the value it had
\* when a later item whose declaration does not declare it is merged; it
\* becomes null only when the later item declares the key with a falsy
\* value, and takes the declared value otherwise.
C4_UndeclaredScalarIsKept ==
  \A t \in DOMAIN merges : \A key \in ScalarKeys :
    LET source == merges[t].source
    IN  /\ key \notin SourceKeys(source)
             => merges[t].after[key] = merges[t].before[key]
        /\ key \in SourceKeys(source) /\ Falsy(source[key])
             => merges[t].after[key] = Null
        /\ key \in SourceKeys(source) /\ ~Falsy(source[key])
             => merges[t].after[key] = source[key]

\* The root set description 'root desc', a child that declares a title and
\* no description was merged, and the description is still 'root desc'.
C4_Witness ==
  \E t \in DOMAIN merges :
    /\ AncestorSet(t, "description")
    /\ merges[t].source # Null
    /\ "description" \notin SourceKeys(merges[t].source)
    /\ merges[t].after.description = RootDescription

---------------------------------------------------------------------------
(* C5 *)

\* The Metadata object item j declares: its object, or what its
\* generateMetadata function returns.
Declaration(j) ==
  IF ItemAt(j).kind \in {"none", "syncThrow"} THEN EmptyObject ELSE ItemAt(j).decl

DeclaresTitle(j) == "title" \in DOMAIN Declaration(j)

\* The root declares the template title, the item at index child declares
\* 'Page' and no other item declares a title.
RootAndPage(child) ==
  /\ child \in 1..(length - 1)
  /\ DeclaresTitle(0) /\ Declaration(0).title = SiteTitle
  /\ DeclaresTitle(child) /\ Declaration(child).title = PageTitle
  /\ \A j \in 0..(length - 1) : DeclaresTitle(j) => j \in {0, child}

PageOfSite == Str(<<"Page", " | Site">>)

\* C5 as stated: the title resolves to 'Page | Site' for every list length
\* and every position of the child.
C5_Original ==
  \A child \in 1..(length - 1) :
    pc = "returned" /\ RootAndPage(child)
      => resolvedMetadata.title.absolute = PageOfSite

\* C5 as amended: the title resolves to 'Page | Site' in every list of at
\* least three items, for every position of the child; in a list of two
\* items the root and the child are the final two items, the root's template
\* is never stashed and the title resolves to 'Page'.
C5_TitleTemplateFromRoot ==
  \A child \in 1..(length - 1) :
    pc = "returned" /\ RootAndPage(child)
      => resolvedMetadata.title.absolute =
           (IF length >= 3 THEN PageOfSite ELSE PageTitle)

\* A list of three items, the child last, has resolved to 'Page | Site'.
C5_Witness ==
  /\ pc = "returned" /\ length >= 3 /\ RootAndPage(length - 1)
  /\ resolvedMetadata.title.absolute = PageOfSite

---------------------------------------------------------------------------
(* C6 *)

Min(a, b) == IF a < b THEN a ELSE b

\* The triple in force once m items have been merged: that of the
\* accumulator as it stood after item min(m-1, length-3), if there is one.
TemplatesAfter(m) ==
  LET last == Min(m - 1, length - 3)
  IN  IF last >= 0 THEN TemplatesOf(merges[last + 1].after) ELSE NoTitleTemplates

\* C6: item j is merged with the title templates read from the accumulator
\* as it stood after item min(j-1, length-3), all null when there is no such
\* item: never those of item j or a later item, recomputed after every item
\* below length-2 and not after the last two.
C6_TemplatesFromEarlierItems ==
  /\ titleTemplates = TemplatesAfter(Len(merges))
  /\ \A t \in DOMAIN merges : merges[t].templates = TemplatesAfter(t - 1)

\* The last two of at least three items were merged with the same non-null
\* template although the first of them declared a template of its own.
C6_Witness ==
  /\ length >= 3 /\ Len(merges) = length
  /\ merges[length].templates = merges[length - 1].templates
  /\ merges[length].templates.title # Null
  /\ TemplateOf(merges[length - 1].after.title) # Null
  /\ TemplateOf(merges[length - 1].after.title) # merges[length].templates.title

---------------------------------------------------------------------------
(* C7 *)

HasIconFiles(static) ==
  ~Falsy(static) /\ (~Falsy(static.icon) \/ ~Falsy(static.apple))

\* C7: after an item with static icon or apple files is merged, icons is
\* exactly the static icon descriptors and the static apple descriptors,
\* each empty when the item has none: nothing of an icons field the same
\* item or an ancestor declared is left.
C7_StaticIconsReplace ==
  \A t \in DOMAIN merges :
    LET static == metadataItems[t].static
    IN  HasIconFiles(static)
          => /\ DOMAIN merges[t].after.icons = {"icon", "apple"}
             /\ merges[t].after.icons.icon
                  = (IF static.icon = Undefined THEN Arr(<<>>) ELSE static.icon)
             /\ merges[t].after.icons.apple
                  = (IF static.apple = Undefined THEN Arr(<<>>) ELSE static.apple)

\* A segment with two static icon files and declared icons 'x.png' was
\* merged over an ancestor's icons: icons.icon is the two descriptors.
C7_Witness ==
  \E t \in DOMAIN merges :
    /\ metadataItems[t].static = TwoIconFiles
    /\ merges[t].source # Null /\ merges[t].source.icons = DeclaredIcon
    /\ merges[t].before.icons # Null
    /\ merges[t].after.icons.icon = Arr(<<IconFile1, IconFile2>>)

---------------------------------------------------------------------------
(* C8 *)

\* family of the accumulator as the t-th merge found it when it came to the
\* static files: after the declared fields of the same item were merged.
MergedBeforeStatic(t) ==
  MergeDeclared(merges[t].before, merges[t].source, merges[t].templates)

\* The t-th merge injected static images into family, which already held
\* an images array.
InjectsOverImages(t, family) ==
  /\ ~Falsy(metadataItems[t].static)
  /\ ~Falsy(metadataItems[t].static[family])
  /\ ~Falsy(MergedBeforeStatic(t)[family])
  /\ IsArray(Get(MergedBeforeStatic(t)[family], "images"))

ImageFamilies == {"openGraph", "twitter"}

\* C8 as stated: the images array after the merge is the previously merged
\* images followed by the static ones.
C8_Original ==
  \A t \in DOMAIN merges : \A family \in ImageFamilies :
    InjectsOverImages(t, family)
      => merges[t].after[family].images.arr
           = MergedBeforeStatic(t)[family].images.arr
               \o resolveImageList(metadataItems[t].static[family].arr,
                                   MergedBeforeStatic(t).metadataBase)

\* C8 as amended: the images array after the merge holds the static images
\* alone, one descriptor per static file in order, each URL resolved against
\* the metadata base; the previously merged images are replaced, and the
\* other sub-fields of the family are kept.
C8_StaticImagesReplaceImages ==
  \A t \in DOMAIN merges : \A family \in ImageFamilies :
    InjectsOverImages(t, family)
      => /\ merges[t].after[family].images.arr
              = resolveImageList(metadataItems[t].static[family].arr,
                                 MergedBeforeStatic(t).metadataBase)
         /\ Len(merges[t].after[family].images.arr)
              = Len(metadataItems[t].static[family].arr)
         /\ \A key \in DOMAIN MergedBeforeStatic(t)[family] :
              key # "images"
                => merges[t].after[family][key] = MergedBeforeStatic(t)[family][key]

\* Static Twitter files were injected over two declared Twitter images:
\* one image is left, the static file under the metadata base.
C8_Witness ==
  \E t \in DOMAIN merges :
    /\ InjectsOverImages(t, "twitter")
    /\ Len(MergedBeforeStatic(t).twitter.images.arr) = 2
    /\ merges[t].after.twitter.images
         = Arr(<<[url |-> Str(<<"https://a.example", "/twitter-image">>),
                  alt |-> Str(<<"Twitter">>)]>>)

---------------------------------------------------------------------------
(* C9 *)

\* The merges, up to the t-th, whose source declares key in `other`.
OtherDeclarers(t, key) ==
  {a \in 1..t : /\ "other" \in SourceKeys(merges[a].source)
                /\ key \in DOMAIN SpreadOf(merges[a].source.other)}

OtherKeys == {"a", "b", "c", "seen"}

Latest(set) == CHOOSE a \in set : \A b \in set : b <= a

\* C9: the resolved `other` holds every key an item declared in `other`,
\* and none else, each with the value of the last item that declared it.
C9_OtherAccumulates ==
  LET t == Len(merges)
  IN  /\ DOMAIN resolvedMetadata.other
           = {key \in OtherKeys : OtherDeclarers(t, key) # {}}
      /\ \A key \in DOMAIN resolvedMetadata.other :
           resolvedMetadata.other[key]
             = merges[Latest(OtherDeclarers(t, key))].source.other[key]
      /\ \A a \in DOMAIN merges :
           "other" \in SourceKeys(merges[a].source)
             => DOMAIN SpreadOf(merges[a].source.other) \subseteq OtherKeys

\* The fold has returned; a descendant overwrote the root's key a, the
\* root's key b survived and another item added key c.
C9_Witness ==
  /\ pc = "returned"
  /\ DOMAIN resolvedMetadata.other = {"a", "b", "c"}
  /\ resolvedMetadata.other.a = Str(<<"child">>)
  /\ resolvedMetadata.other.b = Str(<<"root">>)

---------------------------------------------------------------------------
(* C10 *)

TemplateValues == {Null, Str(<<"%s", " | Site">>)}

TemplateTriples == [{"title", "twitter", "openGraph"} -> TemplateValues]

NoStaticAssets(static) == static = Null \/ static = NoStaticFiles

\* C10: merging a null source with null static assets into the default
\* metadata gives the default metadata, for every title-template triple;
\* and merging an item with a null declaration and no static assets leaves
\* every field of the accumulator as it was.
C10_NullItemChangesNothing ==
  /\ \A templates \in TemplateTriples :
       merge(createDefaultMetadata, Null, Null, templates) = createDefaultMetadata
  /\ \A t \in DOMAIN merges :
       merges[t].source = Null /\ NoStaticAssets(metadataItems[t].static)
         => merges[t].after = merges[t].before

\* An item with a null declaration and a metadata entry without files was
\* merged into an accumulator that ancestors had filled, under a template.
C10_Witness ==
  \E t \in DOMAIN merges :
    /\ merges[t].source = Null
    /\ metadataItems[t].static = NoStaticFiles
    /\ merges[t].before # createDefaultMetadata
    /\ merges[t].templates.title # Null
    /\ merges[t].after = merges[t].before

---------------------------------------------------------------------------
(* C11 *)

\* The t-th merge had static files for family.
InjectsInto(t, family) ==
  /\ ~Falsy(metadataItems[t].static)
  /\ ~Falsy(metadataItems[t].static[family])

\* C11: injecting static Twitter or Open Graph images changes only images
\* of the family as the declared fields left it: every other sub-field the
\* family already had (a declared twitter title, description) is still
\* there with the same value; a family without static files is not
\* touched, icons are not touched unless there are icon or apple files,
\* and no other field of the accumulator is changed by the injection.
C11_StaticInjectionFrame ==
  \A t \in DOMAIN merges :
    LET declared == MergedBeforeStatic(t)
        after == merges[t].after
    IN  /\ \A family \in ImageFamilies :
             IF InjectsInto(t, family)
             THEN \A key \in DOMAIN SpreadOf(declared[family]) :
                    key # "images"
                      => /\ key \in DOMAIN after[family]
                         /\ after[family][key] = declared[family][key]
             ELSE after[family] = declared[family]
        /\ ~HasIconFiles(metadataItems[t].static) => after.icons = declared.icons
        /\ \A key \in MetadataKeys \ {"icons", "twitter", "openGraph"} :
             after[key] = declared[key]

\* A static Twitter image was injected below a declared Twitter card: the
\* declared title and description are still there, images is the file, and
\* the metadata base and the rest are as the declared fields left them.
C11_Witness ==
  \E t \in DOMAIN merges :
    /\ InjectsInto(t, "twitter")
    /\ Get(SpreadOf(MergedBeforeStatic(t).twitter), "description")
         = Str(<<"Twitter - This is a Next.js App">>)
    /\ merges[t].after.twitter.description
         = Str(<<"Twitter - This is a Next.js App">>)
    /\ merges[t].after.twitter.title = MergedBeforeStatic(t).twitter.title
    /\ merges[t].after.twitter.images # MergedBeforeStatic(t).twitter.images
    /\ merges[t].after.metadataBase = Str(<<"https://a.example">>)

---------------------------------------------------------------------------
(* C12 *)

\* The 0-based indices of the dynamic declarations of the list.
FunctionItems == {j \in 0 .. length - 1 : IsFunction(ItemAt(j))}

\* The generator slots that hold an invocation of item j.
SlotsOf(j) == {k \in DOMAIN generators : generators[k].index = j}

\* The invocation of item j threw, which rejected the call.
ThrewAt(j) ==
  j \in FunctionItems /\ ItemAt(j).kind = "syncThrow"
    /\ pc = "rejected" /\ failure = j

\* How many times the generator of item j has been invoked.
InvocationsOf(j) == Cardinality(SlotsOf(j)) + (IF ThrewAt(j) THEN 1 ELSE 0)

\* The preload has run.
Launched == resolvers # <<>>

---------------------------------------------------------------------------
(* C13 *)

\* The accumulator once the first n items are merged.
AccumulatorAfter(n) == IF n = 0 THEN createDefaultMetadata ELSE merges[n].after

\* The parent promise in slot k is resolved.
IsResolved(k) == k \in DOMAIN resolvers /\ resolvers[k].resolved

\* The placeholders resolved so far are the first resolvingIndex ones; the
\* placeholder of a dynamic item is resolved only when every earlier item
\* is merged and, while it is not resolved, its own item is not merged; the
\* k-th dynamic item has the k-th placeholder and the k-th result, and its
\* merge takes what that result gave.
PlaceholdersInOrder ==
  /\ \A k \in DOMAIN resolvers : resolvers[k].resolved <=> k <= resolvingIndex
  /\ \A k \in DOMAIN generators :
       LET index == generators[k].index
       IN  /\ Cardinality({j \in FunctionItems : j < index}) = k - 1
           /\ generateMetadataResults[k].promise = ReturnsPromise(ItemAt(index))
           /\ IF IsResolved(k)
              THEN /\ Len(merges) >= index
                   /\ development
                        => resolvers[k].value.frozen = AccumulatorAfter(index)
              ELSE Len(merges) <= index
           /\ Len(merges) > index
                => /\ IsResolved(k)
                   /\ generators[k].st \in {"returned", "fulfilled"}
                   /\ merges[index + 1].source = generators[k].value
  /\ pc = "await"
       => /\ generatedMetadata \in DOMAIN generators
          /\ generators[generatedMetadata].index = i
          /\ IsResolved(generatedMetadata)

\* A step resolves a placeholder only at its own item, with every earlier
\* item merged and its own not; a resolved placeholder is left as it is.
ResolvesAtOwnItem ==
  \A k \in DOMAIN resolvers' :
    IF IsResolved(k)
    THEN resolvers'[k] = resolvers[k]
    ELSE resolvers'[k].resolved
           => /\ generators'[k].index = i
              /\ Len(merges) = i
              /\ k = resolvingIndex + 1

\* C13: each parent placeholder is resolved at most once, the placeholders
\* in list order; the placeholder of dynamic item i is resolved after the
\* merges of all items before i and before item i is merged; and the k-th
\* dynamic item is always paired with the k-th placeholder and result.
C13_PlaceholdersResolvedInOrder ==
  /\ []PlaceholdersInOrder
  /\ [][ResolvesAtOwnItem]_vars

\* Two generators with a static item between them have both been merged:
\* each placeholder was resolved at its own item, the second after the
\* first generator's item and the static item were merged.
C13_Witness ==
  /\ length = 3 /\ Len(merges) = 3 /\ Len(generators) = 2
  /\ generators[1].index = 0 /\ generators[2].index = 2
  /\ ItemAt(2).kind = "asyncParent"
  /\ IsResolved(1) /\ IsResolved(2)
  /\ development /\ resolvers[2].value.frozen = merges[2].after
  /\ resolvers[1].value.frozen # resolvers[2].value.frozen

---------------------------------------------------------------------------
(* C14 *)

\* Generator k has been handed its parent value and has not settled yet.
ResolvedUnsettled(k) ==
  IsResolved(k) /\ generators[k].st \in {"running", "waiting", "resumed"}

\* The merges so far are those of items 0 .. i-1, one each in list order,
\* and the accumulator is what the last one left.
MergedInListOrder ==
  /\ Len(merges) = i
  /\ resolvedMetadata = AccumulatorAfter(i)
  /\ \A t \in DOMAIN merges : merges[t].before = AccumulatorAfter(t - 1)
  /\ pc = "returned" => Len(merges) = length

\* A step that writes the accumulator is the merge of item i alone, and no
\* generator that holds its parent value is unsettled when it is taken.
WritesOnlyByNextMerge ==
  resolvedMetadata' # resolvedMetadata \/ merges' # merges
    => /\ i' = i + 1
       /\ merges' = Append(merges, [source |-> merges'[i + 1].source,
                                    templates |-> titleTemplates,
                                    before |-> resolvedMetadata,
                                    after |-> resolvedMetadata'])
       /\ \A k \in DOMAIN generators : ~ResolvedUnsettled(k)
       /\ \A k \in DOMAIN generators' : ~(IsResolved(k))' \/
            generators'[k].st \in {"returned", "fulfilled"}

\* C14: the accumulator is written only by merges, performed in strictly
\* increasing list index order, each item merged once; no merge writes
\* while a generator whose parent placeholder has been resolved is still
\* unsettled, so no generator reads the accumulator while it is written.
C14_MergesInOrderNoConcurrentWrite ==
  /\ []MergedInListOrder
  /\ [][WritesOnlyByNextMerge]_vars

\* In production an awaited generator that holds the live accumulator has
\* settled and its item is merged, while a later generator is still
\* waiting for its own parent promise.
C14_Witness ==
  /\ ~development /\ pc = "loop" /\ Len(merges) >= 2
  /\ \E k \in DOMAIN generators :
       /\ IsResolved(k) /\ generators[k].st = "fulfilled"
       /\ generators[k].index = 1
       /\ merges[2].after # merges[2].before
  /\ \E k \in DOMAIN generators : generators[k].st = "waiting" /\ ~IsResolved(k)

---------------------------------------------------------------------------
(* C15 *)

\* What the holder of the parent value of slot k reads through it now.
SeenThroughParent(k) == Deref(resolvers[k].value, resolvedMetadata)

\* C15 as stated: in development and in production, what is read through
\* the value a parent promise delivered is the accumulator as it was when
\* the promise was resolved, whatever has been merged since.
C15_Original ==
  \A k \in DOMAIN generators :
    IsResolved(k) => SeenThroughParent(k) = AccumulatorAfter(generators[k].index)

\* C15 as amended: in development the value is a frozen clone, and what is
\* read through it stays the accumulator as it was when the promise was
\* resolved; in production the value is the accumulator itself, and what is
\* read through it is the merge of the earlier items while the generator is
\* unsettled and the accumulator as the later merges leave it afterwards.
\* What a generator read when it resumed is the merge of the earlier items
\* in both modes.
C15_SnapshotInDevelopmentOnly ==
  \A k \in DOMAIN generators :
    LET index == generators[k].index
    IN  /\ IsResolved(k) /\ development
          => /\ "frozen" \in DOMAIN resolvers[k].value
             /\ SeenThroughParent(k) = AccumulatorAfter(index)
        /\ IsResolved(k) /\ ~development
          => /\ SeenThroughParent(k) = resolvedMetadata
             /\ ResolvedUnsettled(k) => SeenThroughParent(k) = AccumulatorAfter(index)
        /\ generators[k].st \in {"resumed", "fulfilled"}
             /\ ItemAt(index).kind = "asyncParent"
          => generators[k].parent = AccumulatorAfter(index)

\* In production a generator was handed the accumulator, read it, and its
\* own item has been merged: what the value shows now is no longer what
\* the generator was handed.
C15_Witness ==
  \E k \in DOMAIN generators :
    /\ ~development /\ IsResolved(k)
    /\ generators[k].st = "fulfilled"
    /\ ItemAt(generators[k].index).kind = "asyncParent"
    /\ Len(merges) > generators[k].index
    /\ SeenThroughParent(k) # AccumulatorAfter(generators[k].index)
    /\ generators[k].parent = AccumulatorAfter(generators[k].index)

---------------------------------------------------------------------------
(* C16 *)

\* A step of the walk: the continuations of accumulateMetadata itself,
\* which the event loop runs whenever they are ready.
WalkStep ==
  StepStatic \/ StepDynamic \/ AwaitFulfilled \/ AwaitRejected \/ Return

\* A step of generator k once its parent promise is resolved.
GeneratorRuns(k) ==
  /\ IsResolved(k) /\ k \in DOMAIN generators
  /\ GenAwaitParent(k) \/ GenObserve(k) \/ GenFulfil(k) \/ GenReject(k)

\* The walk goes on while it can, and a generator whose parent promise is
\* resolved goes on until it settles; a generator whose parent promise is
\* not resolved may never take a step.
Fairness ==
  /\ WF_vars(WalkStep)
  /\ \A k \in 1 .. MaxItems : WF_vars(GeneratorRuns(k))

SpecLive == Init /\ [][Next]_vars /\ Fairness

Terminated == pc \in {"returned", "rejected"}

\* Generator k is suspended at `await parent`.
Waiting(k) == k \in DOMAIN generators /\ generators[k].st = "waiting"

\* Every generator invoked before generator k has succeeded.
EarlierSucceeded(k) ==
  \A earlier \in DOMAIN generators :
    earlier < k => generators[earlier].st \in {"returned", "fulfilled"}

\* C16 as stated: if every generator settles once its parent promise is
\* resolved, accumulateMetadata eventually returns or rejects, and a
\* generator that waits for its parent promise while every generator
\* before it has succeeded is eventually unblocked.
C16_Original ==
  /\ <>Terminated
  /\ \A k \in 1 .. MaxItems :
       (Waiting(k) /\ EarlierSucceeded(k)) ~> ~Waiting(k)

---------------------------------------------------------------------------
(* C17 *)

\* The static files of the t-th merge write the accumulator field key.
StaticWrites(t, key) ==
  \/ key = "icons" /\ HasIconFiles(metadataItems[t].static)
  \/ key \in ImageFamilies /\ InjectsInto(t, key)

\* C17: a merge changes only the accumulator fields whose keys are on the
\* source, and icons, twitter, openGraph when the item has static files
\* for them: every other field has after the merge exactly the value it
\* had before, so what an ancestor set persists through descendants that
\* do not declare the field.
C17_UndeclaredFieldsKept ==
  \A t \in DOMAIN merges : \A key \in MetadataKeys :
    key \notin SourceKeys(merges[t].source) /\ ~StaticWrites(t, key)
      => merges[t].after[key] = merges[t].before[key]

\* A segment that declares icons and has icon files was merged below an
\* ancestor's cards: twitter, openGraph and the metadata base are the
\* ancestor's, and icons changed.
C17_Witness ==
  \E t \in DOMAIN merges :
    /\ merges[t].source # Null /\ DOMAIN merges[t].source = {"icons"}
    /\ HasIconFiles(metadataItems[t].static)
    /\ merges[t].before.twitter # Null /\ merges[t].before.openGraph # Null
    /\ merges[t].before.metadataBase = Str(<<"https://a.example">>)
    /\ merges[t].after.twitter = merges[t].before.twitter
    /\ merges[t].after.openGraph = merges[t].before.openGraph
    /\ merges[t].after.metadataBase = merges[t].before.metadataBase
    /\ merges[t].after.icons # merges[t].before.icons

---------------------------------------------------------------------------
(* C18 *)

\* The base URL of the t-th merge: the one its source declares, else the
\* one the accumulator had.
BaseOf(t) ==
  IF merges[t].source # Null /\ "metadataBase" \in DOMAIN merges[t].source
       /\ ~Falsy(merges[t].source.metadataBase)
  THEN merges[t].source.metadataBase
  ELSE merges[t].before.metadataBase

Declares(t, key) == key \in SourceKeys(merges[t].source)

\* The base of the call resolves the declared and the injected Open Graph
\* and Twitter images and the alternates, and is the metadata base after
\* the call.
BaseResolvesCards(t) ==
  /\ merges[t].after.metadataBase = BaseOf(t)
  /\ \A family \in ImageFamilies :
       /\ Declares(t, family) /\ ~InjectsInto(t, family)
            /\ ~Falsy(merges[t].source[family])
            => Get(merges[t].after[family], "images")
                 = resolveImages(Get(merges[t].source[family], "images"), BaseOf(t))
       /\ InjectsInto(t, family)
            => merges[t].after[family].images
                 = Arr(resolveImageList(metadataItems[t].static[family].arr, BaseOf(t)))
  /\ Declares(t, "alternates")
       => merges[t].after.alternates
            = resolveAlternates(merges[t].source.alternates, BaseOf(t))

\* The icon URLs the t-th merge left, when its source declares icons and
\* no static icon files replace them.
DeclaredIconsKept(t) ==
  Declares(t, "icons") /\ ~HasIconFiles(metadataItems[t].static)
    /\ ~Falsy(merges[t].source.icons)

\* C18 as stated: the base of the call is the source's metadataBase if it
\* has one, else the accumulator's; it is the metadata base after the call,
\* and it resolves every relative URL of the call: the Open Graph and
\* Twitter images, the alternates, the static image injection, and also
\* the icons and the manifest.
C18_Original ==
  \A t \in DOMAIN merges :
    /\ BaseResolvesCards(t)
    /\ Declares(t, "manifest")
         => merges[t].after.manifest
              = resolveUrl(OrNull(merges[t].source.manifest), BaseOf(t))
    /\ DeclaredIconsKept(t)
         => \A n \in DOMAIN merges[t].after.icons.icon.arr :
              merges[t].after.icons.icon.arr[n].url
                = resolveUrl(resolveIcons(merges[t].source.icons).icon.arr[n].url,
                             BaseOf(t))

\* C18 as amended: the base of the call is the source's metadataBase if it
\* has one, else the accumulator's; it is the metadata base after the call,
\* and it resolves the Open Graph and Twitter images, the alternates and
\* the static image injection of the call. The icons and the manifest are
\* not resolved against it: their URLs are kept as they were written.
C18_OneBasePerMerge ==
  \A t \in DOMAIN merges :
    /\ BaseResolvesCards(t)
    /\ Declares(t, "manifest")
         => merges[t].after.manifest = OrNull(merges[t].source.manifest)
    /\ DeclaredIconsKept(t)
         => merges[t].after.icons = resolveIcons(merges[t].source.icons)

\* Below an ancestor with base a.example a generator declared base
\* b.example and a relative Open Graph image, and below it a segment had
\* static images: the declared image, the injected images and the
\* metadata base are all under b.example, and the ancestor's manifest is
\* still the relative URL it declared.
C18_Witness ==
  /\ Len(merges) = 3
  /\ merges[2].before.metadataBase = Str(<<"https://a.example">>)
  /\ merges[2].before.alternates = [canonical |-> Str(<<"https://a.example", "/about">>)]
  /\ BaseOf(2) = Str(<<"https://b.example">>)
  /\ merges[2].after.openGraph.images
       = Arr(<<[url |-> Str(<<"https://b.example", "/generated.png">>)]>>)
  /\ InjectsInto(3, "twitter")
  /\ merges[3].after.twitter.images.arr[1].url
       = Str(<<"https://b.example", "/twitter-image">>)
  /\ merges[3].after.metadataBase = Str(<<"https://b.example">>)
  /\ merges[3].after.manifest = Str(<<"/manifest.json">>)

---------------------------------------------------------------------------
(* C19 *)

\* The descriptors of a list of producers, one per producer in their order.
DescriptorsOf(list) == [n \in DOMAIN list |-> interopDefault(list[n].module)]

\* What collectStaticImagesFiles is to return for a family of a segment.
CollectedFamily(metadata, family) ==
  IF ProducersOf(metadata, family) = <<>> THEN Undefined
  ELSE Arr(DescriptorsOf(ProducersOf(metadata, family)))

\* The families of the call in flight: every producer has been started,
\* once; a family without producers has given undefined; a fulfilled
\* family holds one descriptor per producer in the producers' order; a
\* family with a rejected producer has rejected with the error of one and
\* holds no list; otherwise it is pending.
FamiliesInFlight ==
  producers # <<>>
    => \A f \in FamilyNames :
         LET list == ProducersOf(CurrentTree.metadata, f)
             rejected == {n \in DOMAIN list : producers[f][n].st = "rejected"}
         IN  /\ DOMAIN producers[f] = DOMAIN list
             /\ \A n \in DOMAIN list :
                  /\ producers[f][n].calls = 1
                  /\ producers[f][n].st \in {"started", "fulfilled", "rejected"}
             /\ IF list = <<>>
                THEN families[f] = [st |-> "fulfilled", value |-> Undefined]
                ELSE IF rejected # {}
                THEN /\ families[f].st = "rejected"
                     /\ families[f].value[1] = f
                     /\ families[f].value[2] \in rejected
                ELSE IF \A n \in DOMAIN list : producers[f][n].st = "fulfilled"
                THEN /\ families[f].st = "fulfilled"
                     /\ families[f].value = CollectedFamily(CurrentTree.metadata, f)
                     /\ Len(families[f].value.arr) = Len(list)
                ELSE families[f] = [st |-> "pending", value |-> Undefined]

\* The entries pushed hold, for every family, undefined or the full list.
FamiliesCollected ==
  \A n \in DOMAIN array :
    IF Falsy(loaderTrees[n].metadata) THEN array[n].static = Null
    ELSE \A f \in FamilyNames :
           array[n].static[f] = CollectedFamily(loaderTrees[n].metadata, f)

\* C19: collectStaticImagesFiles gives undefined when the family has no
\* producers; otherwise every producer is started before any is waited
\* for, each once, and the result is one descriptor per producer in source
\* order whatever the order they complete in; if a producer rejects, the
\* collection rejects and gives no partial list.
C19_StaticFamilyCollection == FamiliesInFlight /\ FamiliesCollected

\* Two icon producers completed second first, and the family fulfilled
\* with the first file's descriptor first; the empty apple family gave
\* undefined.
C19_Witness ==
  /\ collectPc = "static"
  /\ settled = << <<"icon", 2>>, <<"icon", 1>> >>
  /\ families.icon = [st |-> "fulfilled", value |-> Arr(<<IconFile1, IconFile2>>)]
  /\ CurrentTree.metadata.apple = Arr(<<>>)
  /\ families.apple.value = Undefined

---------------------------------------------------------------------------
(* C20 *)

\* The entry collectMetadata pushes for a segment.
EntryOf(tree) ==
  Item(MetadataExportOf(tree).kind, MetadataExportOf(tree).decl,
       IF Falsy(tree.metadata) THEN Null
       ELSE [f \in FamilyNames |-> CollectedFamily(tree.metadata, f)])

\* A producer of the segment whose import fails.
FailingProducers(tree) ==
  IF Falsy(tree.metadata) THEN {}
  ELSE UNION {{<<f, n>> : n \in {m \in DOMAIN ProducersOf(tree.metadata, f) :
                                    ProducersOf(tree.metadata, f)[m].fails}} :
              f \in FamilyNames}

\* The array holds one entry per call that returned, the root's at index 0
\* and the latest last, each the entry of its segment; a call that
\* rejected did so with the error of a failing producer of its segment and
\* left no entry for it.
OneEntryPerSegmentInOrder ==
  /\ Len(array) = segment
  /\ \A n \in DOMAIN array : array[n] = EntryOf(loaderTrees[n])
  /\ collectPc = "done" => Len(array) = Len(loaderTrees)
  /\ collectPc = "rejected"
       => /\ Len(array) < Len(loaderTrees)
          /\ collectError \in FailingProducers(CurrentTree)
          /\ producers[collectError[1]][collectError[2]].st = "rejected"
  /\ collectPc # "rejected" => collectError = <<>>
  /\ \A n \in DOMAIN array : FailingProducers(loaderTrees[n]) = {}

\* A step that changes the array appends one entry and leaves the entries
\* before it as they were; a step that rejects the call leaves the array.
AppendsOneEntry ==
  /\ array' # array
       => /\ Len(array') = Len(array) + 1
          /\ \A n \in DOMAIN array : array'[n] = array[n]
          /\ array'[Len(array')] = EntryOf(CurrentTree)
  /\ collectPc' = "rejected" => array' = array

\* C20: a collectMetadata call that returns has appended exactly one entry
\* to the end of the shared array and changed no entry before it, so calls
\* made root to leaf leave the root's entry at index 0 and the leaf's
\* last; a call whose static files fail to resolve rejects with that error
\* and appends nothing.
C20_OneEntryAppendedPerCall ==
  /\ []OneEntryPerSegmentInOrder
  /\ [][AppendsOneEntry]_vars

\* The root layout and a page with two icon files were collected, then the
\* call for a segment with a rejected image file rejected: the array
\* holds the root's entry and the page's, in that order, and no third.
C20_Witness ==
  /\ Len(loaderTrees) = 3 /\ collectPc = "rejected"
  /\ Len(array) = 2
  /\ array[1].kind = "object" /\ array[1].static = Null
  /\ array[2].kind = "async"
  /\ array[2].static.icon = Arr(<<IconFile1, IconFile2>>)
  /\ collectError = <<"apple", 1>>
  /\ producers.icon[2].st = "started"

---------------------------------------------------------------------------
(* C21 *)

\* The generators invoked for items after item j.
LaterSlots(j) == {k \in DOMAIN generators : generators[k].index > j}

\* C21: once the generator of item k has failed, no item with index k or
\* more is ever merged, no result of a later generator is awaited, and no
\* parent placeholder of a later dynamic item is resolved: a later
\* generator that awaits its parent never resumes and gives nothing, and
\* the call does not return.
C21_FoldStopsAtFailure ==
  \A j \in FailedItems :
    /\ Len(merges) <= j /\ i <= j
    /\ pc # "returned"
    /\ pc = "await" => generators[generatedMetadata].index <= j
    /\ \A k \in DOMAIN resolvers :
         resolvers[k].resolved => k \in DOMAIN generators /\ k \notin LaterSlots(j)
    /\ \A k \in LaterSlots(j) :
         /\ ~IsResolved(k)
         /\ ItemAt(generators[k].index).kind = "asyncParent"
              => /\ generators[k].st \in {"running", "waiting", "rejected"}
                 /\ generators[k].parent = Undefined
                 /\ generators[k].value = Undefined

\* The generator of item 1 rejected after item 0 was merged: the call has
\* rejected with one merge done, and the generator of item 2 is still
\* waiting for a parent promise that is not resolved.
C21_Witness ==
  /\ length = 3 /\ pc = "rejected" /\ failure = 1
  /\ FailedItems = {1}
  /\ Len(merges) = 1 /\ resolvedMetadata = merges[1].after
  /\ \E k \in LaterSlots(1) : generators[k].st = "waiting" /\ ~IsResolved(k)

---------------------------------------------------------------------------
(* C22 *)

\* C22 as stated: the call rejects with the error of the first failed
\* generator in list order, whatever the order the failures happen in and
\* whether a failure is a rejection or a throw at invocation; and the
\* failure of item b is reported only when every item before b is merged.
C22_Original ==
  pc = "rejected"
    => /\ \A a \in FailedItems : failure <= a
       /\ Len(merges) = failure

=============================================================================
